---------------------------- MODULE Spec2Model ----------------------------
(***************************************************************************)
(* A model of src/Budget.py, the Streamlit inventory-analysis script.      *)
(*                                                                         *)
(* Text is modelled as sequences of one-character strings, so that strip,  *)
(* lower, startswith, the regular-expression search and the float parser   *)
(* are computed character by character, as the code computes them.         *)
(*                                                                         *)
(* A Python float is modelled as an exact rational extended with the IEEE  *)
(* special values: a record [k, s, n, d] with k = "fin" (the value         *)
(* s * n / d in lowest terms; n = 0 with s = -1 is the negative zero),     *)
(* k = "inf" (s * infinity) or k = "nan".  Rounding is not modelled.       *)
(***************************************************************************)
EXTENDS Integers, Sequences, FiniteSets, TLC

VARIABLES
    pc,             \* position of the function call in the pure-function specifications
    arg,            \* argument of the function under call
    ret,            \* value the call returned
    uploaded,       \* the uploader's content: NoFile or the table pd.read_csv yields
    total_budget,   \* value of the sidebar number_input of the last run
    q,              \* value of the text_input of the last run
    view,           \* what the last run of the script computed and rendered
    stopped_before  \* an earlier run of this session ended in st.stop()

vars == <<pc, arg, ret, uploaded, total_budget, q, view, stopped_before>>

---------------------------------------------------------------------------
(* Floats *)

\* The one element of a one-element set.  The({e(v) : v \in {x}}) is e with
\* v bound to the value of x: the operators below bind their arguments and
\* their intermediate results this way, each computed once.
The(S) == CHOOSE v \in S : TRUE

RECURSIVE GCD(_, _)
GCD(a, b) == IF b = 0 THEN a ELSE GCD(b, a % b)

Fin(s, n, d) ==
    LET g == GCD(n, d)
    IN  [k |-> "fin", s |-> s, n |-> n \div g, d |-> d \div g]

Inf(s) == [k |-> "inf", s |-> s, n |-> 1, d |-> 0]

NaN == [k |-> "nan", s |-> 1, n |-> 0, d |-> 0]

FromInt(i) == IF i < 0 THEN Fin(-1, -i, 1) ELSE Fin(1, i, 1)

IsNaN(a) == a.k = "nan"

IsZero(a) == a.k = "fin" /\ a.n = 0

\* a / b on floats (numpy semantics: a zero divisor gives inf or nan, no exception)
Div(x, y) ==
    The({CASE IsNaN(a) \/ IsNaN(b) -> NaN
           [] a.k = "inf" /\ b.k = "inf" -> NaN
           [] a.k = "inf" -> Inf(a.s * b.s)
           [] b.k = "inf" -> Fin(a.s * b.s, 0, 1)
           [] IsZero(b) /\ IsZero(a) -> NaN
           [] IsZero(b) -> Inf(a.s * b.s)
           [] OTHER -> Fin(a.s * b.s, a.n * b.d, a.d * b.n)
         : a \in {x}, b \in {y}})

\* a * b on floats
Mul(x, y) ==
    The({CASE IsNaN(a) \/ IsNaN(b) -> NaN
           [] (a.k = "inf" /\ IsZero(b)) \/ (IsZero(a) /\ b.k = "inf") -> NaN
           [] a.k = "inf" \/ b.k = "inf" -> Inf(a.s * b.s)
           [] OTHER -> Fin(a.s * b.s, a.n * b.n, a.d * b.d)
         : a \in {x}, b \in {y}})

\* a < b on floats: every comparison with nan is False
Lt(x, y) ==
    \E a \in {x}, b \in {y} :
        CASE IsNaN(a) \/ IsNaN(b) -> FALSE
          [] a.k = "inf" -> a.s = -1 /\ ~(b.k = "inf" /\ b.s = -1)
          [] b.k = "inf" -> b.s = 1
          [] OTHER -> a.s * a.n * b.d < b.s * b.n * a.d

\* a == b on floats (0.0 == -0.0, nan != nan)
Eq(x, y) ==
    \E a \in {x}, b \in {y} : ~IsNaN(a) /\ ~IsNaN(b) /\ ~Lt(a, b) /\ ~Lt(b, a)

\* a <= b on floats
Le(x, y) == \E a \in {x}, b \in {y} : Lt(a, b) \/ Eq(a, b)

\* a + b on floats
Add(x, y) ==
    The({CASE IsNaN(a) \/ IsNaN(b) -> NaN
           [] a.k = "inf" /\ b.k = "inf" -> IF a.s = b.s THEN a ELSE NaN
           [] a.k = "inf" -> a
           [] b.k = "inf" -> b
           [] OTHER ->
                LET num == a.s * a.n * b.d + b.s * b.n * a.d
                IN  IF num = 0
                    THEN Fin(IF a.s = -1 /\ b.s = -1 THEN -1 ELSE 1, 0, 1)
                    ELSE IF num < 0 THEN Fin(-1, -num, a.d * b.d)
                                     ELSE Fin(1, num, a.d * b.d)
         : a \in {x}, b \in {y}})

---------------------------------------------------------------------------
(* Text *)

Digits == {"0", "1", "2", "3", "4", "5", "6", "7", "8", "9"}

DigitVal(c) ==
    CASE c = "0" -> 0 [] c = "1" -> 1 [] c = "2" -> 2 [] c = "3" -> 3
      [] c = "4" -> 4 [] c = "5" -> 5 [] c = "6" -> 6 [] c = "7" -> 7
      [] c = "8" -> 8 [] c = "9" -> 9

DigitChar(i) ==
    CASE i = 0 -> "0" [] i = 1 -> "1" [] i = 2 -> "2" [] i = 3 -> "3"
      [] i = 4 -> "4" [] i = 5 -> "5" [] i = 6 -> "6" [] i = 7 -> "7"
      [] i = 8 -> "8" [] i = 9 -> "9"

\* str.lower() of one character, over the letters the model's texts use
LowerChar(c) ==
    CASE c = "A" -> "a" [] c = "B" -> "b" [] c = "D" -> "d" [] c = "E" -> "e"
      [] c = "F" -> "f" [] c = "G" -> "g" [] c = "I" -> "i" [] c = "L" -> "l"
      [] c = "N" -> "n" [] c = "O" -> "o" [] c = "P" -> "p" [] c = "R" -> "r"
      [] c = "S" -> "s" [] c = "T" -> "t" [] c = "U" -> "u" [] c = "W" -> "w"
      [] c = "X" -> "x" [] c = "Y" -> "y"
      [] OTHER -> c

Lower(s) == [i \in 1..Len(s) |-> LowerChar(s[i])]

IsSpace(c) == c = " "

\* str.strip(): drop the leading and the trailing whitespace
RECURSIVE LStrip(_)
LStrip(s) == IF s # <<>> /\ IsSpace(Head(s)) THEN LStrip(Tail(s)) ELSE s

RECURSIVE RStrip(_)
RStrip(s) ==
    IF s # <<>> /\ IsSpace(s[Len(s)]) THEN RStrip(SubSeq(s, 1, Len(s) - 1)) ELSE s

Strip(s) == RStrip(LStrip(s))

\* str.startswith(prefix)
StartsWith(s, prefix) ==
    Len(s) >= Len(prefix) /\ SubSeq(s, 1, Len(prefix)) = prefix

AllDigits(s) == \A i \in 1..Len(s) : s[i] \in Digits

\* the value of a string of decimal digits
RECURSIVE DigitsVal(_)
DigitsVal(s) ==
    IF s = <<>> THEN 0 ELSE 10 * DigitsVal(SubSeq(s, 1, Len(s) - 1)) + DigitVal(s[Len(s)])

RECURSIVE Pow10(_)
Pow10(e) == IF e = 0 THEN 1 ELSE 10 * Pow10(e - 1)

RECURSIVE NatToStr(_)
NatToStr(i) == IF i < 10 THEN <<DigitChar(i)>> ELSE NatToStr(i \div 10) \o <<DigitChar(i % 10)>>


---------------------------------------------------------------------------
(* to_number, Budget.py lines 22-29 *)

\* A cell as to_number receives it from a column pd.read_csv parsed: a text
\* (t = "str"), an integer (t = "int") or the float nan of an empty cell.
StrCell(s) == [t |-> "str", s |-> s, i |-> 0]

IntCell(i) == [t |-> "int", s |-> <<>>, i |-> i]

NanCell == [t |-> "nan", s |-> <<>>, i |-> 0]

\* str(s)
Str(c) ==
    CASE c.t = "str" -> c.s
      [] c.t = "int" -> IF c.i < 0 THEN <<"-">> \o NatToStr(-c.i) ELSE NatToStr(c.i)
      [] c.t = "nan" -> <<"n", "a", "n">>

Stripped == {"$", ",", "(", ")"}

\* re.sub(r'[\$,()]', '', s)
RECURSIVE ReSub(_)
ReSub(s) ==
    IF s = <<>> THEN <<>>
    ELSE (IF Head(s) \in Stripped THEN <<>> ELSE <<Head(s)>>) \o ReSub(Tail(s))

Returned(v) == [exc |-> "none", v |-> v]

Raised(e) == [exc |-> e, v |-> NaN]

\* index of the first "." of s, or 0
RECURSIVE FindDot(_, _)
FindDot(s, i) ==
    IF i > Len(s) THEN 0 ELSE IF s[i] = "." THEN i ELSE FindDot(s, i + 1)

\* float(s) of a text: surrounding whitespace, an optional sign, then nan, inf,
\* infinity (any case) or decimal digits with at most one point and at least one
\* digit; anything else raises ValueError.  Exponents and digit-group
\* underscores are outside the alphabet of the model's texts.
Unsigned(t) == IF t # <<>> /\ Head(t) \in {"-", "+"} THEN Tail(t) ELSE t

PyFloat(s) ==
    The({LET sgn == IF t # <<>> /\ Head(t) = "-" THEN -1 ELSE 1
             ip  == IF dot = 0 THEN body ELSE SubSeq(body, 1, dot - 1)
             fp  == IF dot = 0 THEN <<>> ELSE SubSeq(body, dot + 1, Len(body))
         IN  CASE low = <<"n", "a", "n">> -> Returned(NaN)
               [] low = <<"i", "n", "f">> -> Returned(Inf(sgn))
               [] low = <<"i", "n", "f", "i", "n", "i", "t", "y">> -> Returned(Inf(sgn))
               [] AllDigits(ip) /\ AllDigits(fp) /\ Len(ip) + Len(fp) > 0 ->
                    Returned(Fin(sgn, DigitsVal(ip \o fp), Pow10(Len(fp))))
               [] OTHER -> Raised("ValueError")
         : t    \in {Strip(s)},
           body \in {Unsigned(Strip(s))},
           low  \in {Lower(Unsigned(Strip(s)))},
           dot  \in {FindDot(Unsigned(Strip(s)), 1)}})

Zero == Fin(1, 0, 1)

\* a plausible slip: no except clause, the ValueError escapes
to_number_unguarded(s) == The({r : r \in {PyFloat(ReSub(Str(s)))}})

to_number(s) ==
    The({IF r.exc = "ValueError" THEN Returned(Zero) ELSE r
         : r \in {PyFloat(ReSub(Str(s)))}})

---------------------------------------------------------------------------
(* categorize, Budget.py lines 67-75 *)

Danger == "Danger (<1 month)"
Low    == "Low (1-3 months)"
Normal == "Normal (3-6 months)"
Excess == "Excess (>6 months)"

Bands == {Danger, Low, Normal, Excess}

\* a plausible slip: the bound 3 made inclusive on the Low side
categorize_le3(x) ==
    The({IF Lt(m, FromInt(1)) THEN Danger
         ELSE IF Le(m, FromInt(3)) THEN Low
         ELSE IF Le(m, FromInt(6)) THEN Normal
         ELSE Excess
         : m \in {x}})

\* a plausible slip: the chain written from the top band down, so that nan,
\* for which every comparison is False, ends in Danger
categorize_topdown(x) ==
    The({IF Lt(FromInt(6), m) THEN Excess
         ELSE IF Le(FromInt(3), m) THEN Normal
         ELSE IF Le(FromInt(1), m) THEN Low
         ELSE Danger
         : m \in {x}})

categorize(x) ==
    The({IF Lt(m, FromInt(1)) THEN Danger
         ELSE IF Lt(m, FromInt(3)) THEN Low
         ELSE IF Le(m, FromInt(6)) THEN Normal
         ELSE Excess
         : m \in {x}})

---------------------------------------------------------------------------
(* The script body, Budget.py lines 37-135 *)

\* The uploader's content.  A present file holds the rows pd.read_csv yields
\* after the three skipped lines, with the required columns only: Item as
\* text, TotalRevenue and CurrentOnHandValue as cells.
NoFile == [present |-> FALSE, rows |-> <<>>]

File(rows) == [present |-> TRUE, rows |-> rows]

RawRow(item, rev, onhand) ==
    [Item |-> item, TotalRevenue |-> rev, CurrentOnHandValue |-> onhand]

DefaultBudget == 100000     \* number_input(value=100000.0)
TopN          == 20         \* nlargest(20, 'TotalRevenue')

T_total == <<"t", "o", "t", "a", "l">>

\* lines 41-43: every column but Item goes through to_number; idx is the
\* row's index label, which pandas keeps through filtering and sorting
Clean(rows) ==
    [i \in 1..Len(rows) |->
        [idx |-> i,
         Item |-> rows[i].Item,
         TotalRevenue |-> to_number(rows[i].TotalRevenue).v,
         CurrentOnHandValue |-> to_number(rows[i].CurrentOnHandValue).v]]

\* str.contains('total') in place of str.startswith('total')
total_mask_contains(df) ==
    [i \in 1..Len(df) |->
        LET s == Lower(Strip(df[i].Item))
        IN  \E p \in 0..Len(s) : StartsWith(SubSeq(s, p + 1, Len(s)), T_total)]

\* line 46: df['Item'].str.strip().str.lower().str.startswith('total')
total_mask(df) ==
    [i \in 1..Len(df) |-> StartsWith(Lower(Strip(df[i].Item)), T_total)]

\* line 47: total_mask.any()
any(mask) == \E i \in DOMAIN mask : mask[i]

\* line 50: df.loc[total_mask, 'TotalRevenue'].iloc[0]
total_rev(df, mask) ==
    LET first == CHOOSE i \in 1..Len(df) : mask[i] /\ \A j \in 1..(i - 1) : ~mask[j]
    IN  df[first].TotalRevenue

\* only the row total_rev was read from is dropped
df_items_drop_first(df, mask) ==
    LET first == CHOOSE i \in 1..Len(df) : mask[i] /\ \A j \in 1..(i - 1) : ~mask[j]
    IN  SubSeq(df, 1, first - 1) \o SubSeq(df, first + 1, Len(df))

\* line 51: df.loc[~total_mask]
RECURSIVE df_items(_, _)
df_items(df, mask) ==
    IF df = <<>> THEN <<>>
    ELSE (IF mask[Head(df).idx] THEN <<>> ELSE <<Head(df)>>) \o df_items(Tail(df), mask)

\* the monthly share taken as a tenth of the annual one
Allocate_slip(r, rev0, budget) ==
    LET w   == Div(r.TotalRevenue, rev0)
        a   == Mul(w, budget)
        m   == Div(a, FromInt(10))
        civ == r.CurrentOnHandValue
        c   == Div(civ, m)
    IN  [idx |-> r.idx, Item |-> r.Item, TotalRevenue |-> r.TotalRevenue,
         CurrentOnHandValue |-> r.CurrentOnHandValue,
         RevWeight |-> w, AnnualBudgetAlloc |-> a, MonthlyBudgetAlloc |-> m,
         CurrentInventoryValue |-> civ, CoverMonths |-> c,
         Category |-> categorize(c)]

\* lines 60-76: the derived columns and the Category of one item row
Allocate(r, rev0, budget) ==
    LET w   == Div(r.TotalRevenue, rev0)
        a   == Mul(w, budget)
        m   == Div(a, FromInt(12))
        civ == r.CurrentOnHandValue
        c   == Div(civ, m)
    IN  [idx |-> r.idx, Item |-> r.Item, TotalRevenue |-> r.TotalRevenue,
         CurrentOnHandValue |-> r.CurrentOnHandValue,
         RevWeight |-> w, AnnualBudgetAlloc |-> a, MonthlyBudgetAlloc |-> m,
         CurrentInventoryValue |-> civ, CoverMonths |-> c,
         Category |-> categorize(c)]

\* re.compile(pat, re.IGNORECASE).search(s) is not None, for a pattern of
\* literal characters and ".", which matches any character: str.contains is
\* called with its default regex=True.  The other metacharacters are outside
\* the alphabet of the model's queries.
re_search(pat, s) ==
    \E p \in 0..(Len(s) - Len(pat)) :
        \A i \in 1..Len(pat) :
            pat[i] = "." \/ LowerChar(pat[i]) = LowerChar(s[p + i])

\* line 98: df_items[df_items['Item'].str.contains(q, case=False, na=False)]
RECURSIVE search(_, _)
search(items, query) ==
    IF items = <<>> THEN <<>>
    ELSE (IF re_search(query, Head(items).Item) THEN <<Head(items)>> ELSE <<>>)
            \o search(Tail(items), query)

\* the rows of `sorted`, which is in descending order, with r put behind the
\* rows whose value is not smaller: equal values keep their input order
RECURSIVE InsertDesc(_, _)
InsertDesc(sorted, r) ==
    IF sorted = <<>> THEN <<r>>
    ELSE IF Lt(Head(sorted).TotalRevenue, r.TotalRevenue)
         THEN <<r>> \o sorted
         ELSE <<Head(sorted)>> \o InsertDesc(Tail(sorted), r)

RECURSIVE SortDesc(_)
SortDesc(rows) ==
    IF rows = <<>> THEN <<>>
    ELSE InsertDesc(SortDesc(SubSeq(rows, 1, Len(rows) - 1)), rows[Len(rows)])

\* the rows with a TotalRevenue (na = FALSE) or without one (na = TRUE)
RECURSIVE WhereNa(_, _)
WhereNa(rows, na) ==
    IF rows = <<>> THEN <<>>
    ELSE (IF IsNaN(Head(rows).TotalRevenue) = na THEN <<Head(rows)>> ELSE <<>>)
            \o WhereNa(Tail(rows), na)

Head_n(rows, n) == SubSeq(rows, 1, IF Len(rows) < n THEN Len(rows) ELSE n)

\* keep='last': among equal values the later rows come first
RECURSIVE InsertDescLast(_, _)
InsertDescLast(sorted, r) ==
    IF sorted = <<>> THEN <<r>>
    ELSE IF Le(Head(sorted).TotalRevenue, r.TotalRevenue)
         THEN <<r>> \o sorted
         ELSE <<Head(sorted)>> \o InsertDescLast(Tail(sorted), r)

RECURSIVE SortDescLast(_)
SortDescLast(rows) ==
    IF rows = <<>> THEN <<>>
    ELSE InsertDescLast(SortDescLast(SubSeq(rows, 1, Len(rows) - 1)), rows[Len(rows)])

nlargest_keep_last(n, items) ==
    LET valued == WhereNa(items, FALSE)
        nans   == WhereNa(items, TRUE)
    IN  Head_n(SortDescLast(valued) \o nans, n)

\* line 114: df_items.nlargest(20, 'TotalRevenue'), keep='first' by default:
\* the n rows of largest value in descending order, equal values in input
\* order, the rows without a value (nan) behind all others
nlargest(n, items) ==
    LET valued == WhereNa(items, FALSE)
        nans   == WhereNa(items, TRUE)
    IN  Head_n(SortDesc(valued) \o nans, n)

Blank(rendered) ==
    [rendered |-> rendered, total_rev |-> NaN, df_items |-> <<>>, res |-> <<>>,
     top20_rev |-> <<>>]

NoView == Blank({})

\* lines 53-135 of a run that found a Summary Row: the derived columns of
\* the item rows `kept`, the search, the full table, the ranking and the
\* completion message.  `rendered` names what the run put on the page.
Analyse(kept, rev0, budget, query) ==
    The({[rendered |->
             {"title", "uploader", "budget", "search_box", "results_table",
              "chart", "success"}
                 \cup (IF query = <<>> THEN {}
                       ELSE IF search(items, query) = <<>> THEN {"info"}
                       ELSE {"search_table"}),
          total_rev |-> r0,
          df_items  |-> items,
          res       |-> IF query = <<>> THEN <<>> ELSE search(items, query),
          top20_rev |-> nlargest(TopN, items)]
         : r0 \in {rev0},
           items \in {[i \in 1..Len(kept) |-> Allocate(kept[i], rev0, budget)]}})

\* the run goes on past the missing-summary-row error: st.stop() left out
Script_no_stop(file, budget, query) ==
    IF ~file.present THEN Blank({"title", "uploader"})
    ELSE
        The({The({IF ~any(mask)
                  THEN [Analyse(df, NaN, budget, query) EXCEPT
                            !.rendered = @ \cup {"error"}]
                  ELSE Analyse(df_items(df, mask), total_rev(df, mask), budget, query)
                  : mask \in {total_mask(df)}})
             : df \in {Clean(file.rows)}})

\* One run of the script, top to bottom, on the uploader's content and the
\* values the two widgets return (lines 37-135).
Script(file, budget, query) ==
    IF ~file.present THEN Blank({"title", "uploader"})
    ELSE
        The({The({IF ~any(mask)
                  THEN Blank({"title", "uploader", "error"})
                  ELSE Analyse(df_items(df, mask), total_rev(df, mask), budget, query)
                  : mask \in {total_mask(df)}})
             : df \in {Clean(file.rows)}})

\* the table of the previous run is reused while a file stays uploaded
script_run_cached(prev, file, budget, query) ==
    LET new == Script(file, budget, query)
    IN  IF "success" \in prev.rendered /\ "success" \in new.rendered
        THEN [new EXCEPT !.df_items = prev.df_items]
        ELSE new

\* Streamlit executes the whole script again on every upload and on every
\* widget edit; nothing the previous run computed (prev) is read
script_run(prev, file, budget, query) == Script(file, budget, query)

Idle ==
    /\ uploaded = NoFile
    /\ total_budget = FromInt(DefaultBudget)
    /\ q = <<>>
    /\ view = NoView
    /\ stopped_before = FALSE

---------------------------------------------------------------------------
(* Calls of the two pure functions on bounded inputs *)

MaxLen   == 4       \* longest generated text handed to to_number
MaxInt   == 12      \* largest integer cell handed to to_number
MaxMilli == 7000    \* CoverMonths values run over -MaxMilli/1000 .. MaxMilli/1000

Texts(chars, n) == UNION {[1..l -> chars] : l \in 0..n}

NumChars == {"5", ".", "-", "$", ",", "(", ")", " ", "x"}

T_Paren500   == <<"(", "5", "0", "0", ")">>
T_Dollar1234 == <<"$", "1", ",", "2", "3", "4", ".", "5", "6">>
T_NA         == <<"N", "/", "A">>

NumExamples ==
    {T_Paren500, T_Dollar1234, T_NA, <<"n", "a", "n">>, <<"-", "I", "n", "f">>,
     <<"+", "7">>, <<" ", "1", "2", ".", "5", "0", " ">>, <<"1", ".", "2", ".", "3">>,
     <<"-", "0">>, <<"(", "$", "4", "0", "0", ",", "0", "0", "0", ")">>}

ToNumberInputs ==
    {StrCell(s) : s \in Texts(NumChars, MaxLen) \cup NumExamples}
        \cup {IntCell(i) : i \in -MaxInt..MaxInt} \cup {NanCell}

Milli(k) == IF k < 0 THEN Fin(-1, -k, 1000) ELSE Fin(1, k, 1000)

NegZero == Fin(-1, 0, 1)

CoverValues ==
    {Milli(k) : k \in -MaxMilli..MaxMilli} \cup {Inf(1), Inf(-1), NaN, NegZero}

InitToNumber ==
    /\ pc = "call"
    /\ arg \in ToNumberInputs
    /\ ret = Raised("pending")
    /\ Idle

CallToNumber ==
    /\ pc = "call"
    /\ ret' = to_number(arg)
    /\ pc' = "done"
    /\ UNCHANGED <<arg, uploaded, total_budget, q, view, stopped_before>>

NextToNumber == CallToNumber

SpecToNumber == InitToNumber /\ [][NextToNumber]_vars

InitCategorize ==
    /\ pc = "call"
    /\ arg \in CoverValues
    /\ ret = ""
    /\ Idle

CallCategorize ==
    /\ pc = "call"
    /\ ret' = categorize(arg)
    /\ pc' = "done"
    /\ UNCHANGED <<arg, uploaded, total_budget, q, view, stopped_before>>

NextCategorize == CallCategorize

SpecCategorize == InitCategorize /\ [][NextCategorize]_vars

---------------------------------------------------------------------------
(* Claims about the pure functions *)

\* C1: categorize gives every CoverMonths value exactly one band: below 1 is
\* Danger, from 1 to below 3 is Low, from 3 to 6 inclusive is Normal, above 6
\* is Excess; the boundary values 1, 3 and 6 are Low, Normal and Normal.
C1_Bands ==
    pc = "done" =>
        /\ ret \in Bands
        /\ arg.k = "fin" =>
              LET k == arg.s * arg.n * (1000 \div arg.d)   \* arg = k / 1000
              IN  /\ arg.d * (1000 \div arg.d) = 1000
                  /\ (k < 1000) <=> (ret = Danger)
                  /\ (1000 <= k /\ k < 3000) <=> (ret = Low)
                  /\ (3000 <= k /\ k <= 6000) <=> (ret = Normal)
                  /\ (k > 6000) <=> (ret = Excess)
        /\ (arg = Inf(1) => ret = Excess)
        /\ (arg = Inf(-1) => ret = Danger)
        /\ (arg = FromInt(1) => ret = Low)
        /\ (arg = FromInt(3) => ret = Normal)
        /\ (arg = FromInt(6) => ret = Normal)

C1_Witness == pc = "done" /\ arg = FromInt(6) /\ ret = Normal

Without(s, i) == SubSeq(s, 1, i - 1) \o SubSeq(s, i + 1, Len(s))

\* C7: to_number never raises; the result does not change when an occurrence
\* of "$", ",", "(" or ")" is removed from the text; a text holding none of
\* them gives float(text), or 0.0 when float(text) raises ValueError, so no
\* other character is removed; "(500)" gives 500.0 (the sign is kept
\* positive), "$1,234.56" gives 1234.56 and "N/A" gives 0.0.
C7_ToNumber ==
    pc = "done" =>
        LET s == Str(arg)
        IN  /\ ret.exc = "none"
            /\ \A i \in 1..Len(s) :
                  s[i] \in Stripped => to_number(StrCell(Without(s, i))) = ret
            /\ (\A i \in 1..Len(s) : s[i] \notin Stripped) =>
                  ret = IF PyFloat(s).exc = "none" THEN PyFloat(s) ELSE Returned(Zero)
            /\ (s = T_Paren500 => ret.v = Fin(1, 500, 1))
            /\ (s = T_Dollar1234 => ret.v = Fin(1, 123456, 100))
            /\ (s = T_NA => ret.v = Zero)
            /\ (s = <<"-", "5">> => ret.v = Fin(-1, 5, 1))
            /\ (s = <<"5", " ", "5">> => ret.v = Zero)
            /\ (s = <<"5", ".", "5">> => ret.v = Fin(1, 11, 2))

C7_Witness == pc = "done" /\ Str(arg) = T_Dollar1234 /\ ret = Returned(Fin(1, 30864, 25))

---------------------------------------------------------------------------
(* The interactive session: uploads and widget edits, each a full run *)

MaxRows == 2        \* most rows of a file uploaded in the session

Tables(pool, n) == UNION {[1..l -> pool] : l \in 0..n}

T_Total       == <<"T", "o", "t", "a", "l">>
T_WidgetA     == <<"W", "i", "d", "g", "e", "t", " ", "A">>
T_SuperWidget == <<"S", "U", "P", "E", "R", "-", "W", "I", "D", "G", "E", "T">>
T_Gadget      == <<"G", "a", "d", "g", "e", "t">>

SessionRows ==
    {RawRow(T_Total, StrCell(<<"1", ",", "0", "0", "0">>), IntCell(0)),
     RawRow(T_WidgetA, IntCell(600), IntCell(50)),
     RawRow(T_SuperWidget, IntCell(400), IntCell(500)),
     RawRow(T_Gadget, StrCell(<<"$", "0">>), NanCell)}

SessionFiles == Tables(SessionRows, MaxRows)

Budgets == {FromInt(0), FromInt(DefaultBudget), FromInt(120000)}

Queries == {<<"w", "i", "d">>, <<"w", ".", "d">>, <<"x">>}

\* a widget the run did not create loses its value: the next run that
\* creates it gets the default again
Widgets(v, budget, query) ==
    /\ total_budget' = IF "budget" \in v.rendered THEN budget ELSE FromInt(DefaultBudget)
    /\ q' = IF "search_box" \in v.rendered THEN query ELSE <<>>

Rerun(file, budget, query) ==
    \E v \in {script_run(view, file, budget, query)} :
        /\ uploaded' = file
        /\ view' = v
        /\ Widgets(v, budget, query)
        /\ stopped_before' = (stopped_before \/ "error" \in view.rendered)
        /\ UNCHANGED <<pc, arg, ret>>

Init ==
    /\ pc = "session"
    /\ arg = NanCell
    /\ ret = ""
    /\ uploaded = NoFile
    /\ total_budget = FromInt(DefaultBudget)
    /\ q = <<>>
    /\ view = Script(NoFile, FromInt(DefaultBudget), <<>>)
    /\ stopped_before = FALSE

\* a file is put into the uploader (line 35)
Upload == \E f \in SessionFiles : Rerun(File(f), total_budget, q)

\* the file is taken out of the uploader
Remove == uploaded.present /\ Rerun(NoFile, total_budget, q)

\* the sidebar number_input is edited (lines 55-57: min_value=0.0)
SetBudget ==
    /\ "budget" \in view.rendered
    /\ \E b \in Budgets : Rerun(uploaded, b, q)

\* the search box is edited (line 96)
SetQuery ==
    /\ "search_box" \in view.rendered
    /\ \E s \in Queries \cup {<<>>} : Rerun(uploaded, total_budget, s)

Next == Upload \/ Remove \/ SetBudget \/ SetQuery

Spec == Init /\ [][Next]_vars

\* the rows of a file whose Item, without its leading blanks and in any
\* letter case, begins with "total"
IsSummaryItem(item) ==
    \E k \in 0..Len(item) :
        /\ \A i \in 1..k : item[i] = " "
        /\ Len(item) >= k + 5
        /\ item[k + 1] \in {"t", "T"}
        /\ item[k + 2] \in {"o", "O"}
        /\ item[k + 3] \in {"t", "T"}
        /\ item[k + 4] \in {"a", "A"}
        /\ item[k + 5] \in {"l", "L"}

SummaryRows(file) == {i \in 1..Len(file.rows) : IsSummaryItem(file.rows[i].Item)}

\* C3: an upload without a Summary Row shows the error and nothing that
\* follows it (no budget control, no tables, no chart, no completion message,
\* no derived rows); the session goes on, and whenever the uploaded file has a
\* Summary Row, also after such an error, the full results are shown.
C3_MissingSummaryStops ==
    /\ (uploaded.present /\ SummaryRows(uploaded) = {}) =>
          /\ view.rendered = {"title", "uploader", "error"}
          /\ view.df_items = <<>> /\ view.res = <<>> /\ view.top20_rev = <<>>
    /\ (uploaded.present /\ SummaryRows(uploaded) # {}) =>
          /\ {"budget", "search_box", "results_table", "chart", "success"} \subseteq view.rendered
          /\ "error" \notin view.rendered
    /\ ~uploaded.present => view.rendered = {"title", "uploader"}

C3_Witness ==
    /\ stopped_before
    /\ "success" \in view.rendered
    /\ Len(view.df_items) > 0

\* C4: after any sequence of uploads and budget edits the item table shown is
\* the one the formulas give for the file now uploaded and the budget now
\* set: every row that is no Summary Row, in file order, with its cleaned
\* values, RevWeight = TotalRevenue / total_rev, AnnualBudgetAlloc =
\* RevWeight * total_budget, MonthlyBudgetAlloc = AnnualBudgetAlloc / 12,
\* CurrentInventoryValue = CurrentOnHandValue, CoverMonths =
\* CurrentInventoryValue / MonthlyBudgetAlloc and the Category of CoverMonths.
C4_FullRecompute ==
    IF uploaded.present /\ SummaryRows(uploaded) # {}
    THEN
        LET rows  == uploaded.rows
            first == CHOOSE i \in SummaryRows(uploaded) : \A j \in SummaryRows(uploaded) : i <= j
            rev0  == to_number(rows[first].TotalRevenue).v
            keep  == {i \in 1..Len(rows) : i \notin SummaryRows(uploaded)}
            shown == view.df_items
        IN  /\ Len(shown) = Cardinality(keep)
            /\ \A j \in 1..Len(shown) :
                  LET r == shown[j]
                  IN  /\ r.idx \in keep
                      /\ \A j2 \in 1..(j - 1) : shown[j2].idx < r.idx
                      /\ r.Item = rows[r.idx].Item
                      /\ r.TotalRevenue = to_number(rows[r.idx].TotalRevenue).v
                      /\ r.CurrentOnHandValue = to_number(rows[r.idx].CurrentOnHandValue).v
                      /\ r.RevWeight = Div(r.TotalRevenue, rev0)
                      /\ r.AnnualBudgetAlloc = Mul(r.RevWeight, total_budget)
                      /\ r.MonthlyBudgetAlloc = Div(r.AnnualBudgetAlloc, FromInt(12))
                      /\ r.CurrentInventoryValue = r.CurrentOnHandValue
                      /\ r.CoverMonths = Div(r.CurrentInventoryValue, r.MonthlyBudgetAlloc)
                      /\ r.Category = categorize(r.CoverMonths)
    ELSE view.df_items = <<>>

C4_Witness ==
    /\ stopped_before
    /\ total_budget = FromInt(120000)
    /\ Len(view.df_items) = 1
    /\ view.df_items[1].Item = T_SuperWidget
    /\ view.df_items[1].MonthlyBudgetAlloc = FromInt(4000)
    /\ view.df_items[1].Category = Danger

\* q occurs in s as a literal text, letter case ignored
LiteralContains(s, sub) ==
    \E p \in 0..(Len(s) - Len(sub)) :
        \A i \in 1..Len(sub) : LowerChar(sub[i]) = LowerChar(s[p + i])

\* C5: for a non-empty query the search result is exactly the item rows whose
\* Item contains the query as a literal text, letter case ignored, in row order.
C5_LiteralSubstring ==
    ("success" \in view.rendered /\ q # <<>>) =>
        view.res = SelectSeq(view.df_items, LAMBDA r : LiteralContains(r.Item, q))

---------------------------------------------------------------------------
(* Single runs of the script on bounded files *)

MaxItems    == 3    \* most rows of a file of the allocation runs
MaxPad      == 2    \* most leading blanks of a generated Item
MaxRankRows == 22   \* most item rows of a file of the ranking runs
MaxPat      == 3    \* longest period of the revenues of a ranking file

InitRun(files, budgets) ==
    /\ pc = "call"
    /\ arg = NanCell
    /\ ret = ""
    /\ uploaded \in {File(f) : f \in files}
    /\ total_budget \in budgets
    /\ q = <<>>
    /\ view = NoView
    /\ stopped_before = FALSE

\* the run of the script on the uploaded file and the budget set
RunScript ==
    /\ pc = "call"
    /\ view' = script_run(view, uploaded, total_budget, q)
    /\ pc' = "done"
    /\ UNCHANGED <<arg, ret, uploaded, total_budget, q, stopped_before>>

NextRun == RunScript

T_A == <<"A">>
T_B == <<"B">>
T_C == <<"C">>
T_D == <<"D">>
T_F == <<"F">>

AllocRows ==
    {RawRow(T_Total, StrCell(<<"1", ",", "0", "0", "0">>), IntCell(0)),
     RawRow(<<" ", "T", "O", "T", "A", "L">>, StrCell(T_Paren500), IntCell(0)),
     RawRow(<<"t", "o", "t", "a", "l", "s">>, IntCell(0), IntCell(0)),
     RawRow(T_A, IntCell(600), IntCell(50)),
     RawRow(T_B, IntCell(400), IntCell(500)),
     RawRow(T_C, StrCell(<<"$", "0">>), IntCell(0)),
     RawRow(T_D, StrCell(<<"-", "5">>), IntCell(50)),
     RawRow(T_F, NanCell, StrCell(T_NA))}

InitAlloc == InitRun(Tables(AllocRows, MaxItems), Budgets)

SpecAlloc == InitAlloc /\ [][NextRun]_vars

T_TOTAL_Revenue ==
    <<" ", " ", "T", "O", "T", "A", "L", " ", "R", "e", "v", "e", "n", "u", "e">>
T_Subtotal == <<"S", "u", "b", "t", "o", "t", "a", "l">>

TotalSpellings ==
    {[i \in 1..5 |-> IF up[i] = 1 THEN <<"T", "O", "T", "A", "L">>[i] ELSE T_total[i]]
        : up \in [1..5 -> {0, 1}]}

NearMisses ==
    {T_Subtotal, <<"t", "o", "t", "a">>, <<"o", "t", "a", "l">>,
     <<"t", " ", "o", "t", "a", "l">>, <<"t", "o", "t", "l">>, <<>>}

Tails == {<<>>, <<"s">>, <<" ">>, <<" ", "R", "e", "v", "e", "n", "u", "e">>}

MaskItems ==
    {pad \o word \o tail :
        pad \in Texts({" "}, MaxPad), word \in TotalSpellings \cup NearMisses, tail \in Tails}

MaskFiles ==
    UNION {{<<RawRow(item, IntCell(1), IntCell(1))>>,
            <<RawRow(item, IntCell(1), IntCell(1)), RawRow(T_Total, IntCell(2), IntCell(0))>>}
           : item \in MaskItems}

InitMask == InitRun(MaskFiles, {FromInt(DefaultBudget)})

SpecMask == InitMask /\ [][NextRun]_vars

RankValues == {1, 2, 3}

RankPatterns == UNION {[1..l -> RankValues] : l \in 1..MaxPat}

\* n item rows whose revenues repeat the pattern, then the Summary Row
RankFile(pat, n) ==
    [i \in 1..(n + 1) |->
        IF i <= n
        THEN RawRow(T_A, IntCell(pat[((i - 1) % Len(pat)) + 1]), IntCell(1))
        ELSE RawRow(T_Total, IntCell(100), IntCell(0))]

RankFiles == {RankFile(pat, n) : pat \in RankPatterns, n \in 0..MaxRankRows}

InitRank == InitRun(RankFiles, {FromInt(DefaultBudget)})

SpecRank == InitRank /\ [][NextRun]_vars

---------------------------------------------------------------------------
(* Claims about single runs *)

Shown(table) == {table[j].idx : j \in 1..Len(table)}

FirstSummaryRow(file) ==
    CHOOSE i \in SummaryRows(file) : \A j \in SummaryRows(file) : i <= j

\* C2 as stated: with more than one Summary Row, total_rev is the
\* TotalRevenue of the first, and every later one is an item row with a
\* Category that appears in the result views.
C2_LaterSummaryRowsAreItems ==
    (pc = "done" /\ Cardinality(SummaryRows(uploaded)) > 1) =>
        /\ view.total_rev = to_number(uploaded.rows[FirstSummaryRow(uploaded)].TotalRevenue).v
        /\ \A i \in SummaryRows(uploaded) \ {FirstSummaryRow(uploaded)} :
              /\ i \in Shown(view.df_items)
              /\ i \in Shown(view.top20_rev)
              /\ \A j \in 1..Len(view.df_items) :
                    view.df_items[j].idx = i => view.df_items[j].Category \in Bands

\* C2 (amended): with more than one Summary Row, total_rev is the
\* TotalRevenue of the first, and every Summary Row, the first and the later
\* ones alike, is left out of the item rows and of the result views; the item
\* rows are exactly the other rows.
C2_AllSummaryRowsExcluded ==
    (pc = "done" /\ Cardinality(SummaryRows(uploaded)) > 1) =>
        /\ view.total_rev = to_number(uploaded.rows[FirstSummaryRow(uploaded)].TotalRevenue).v
        /\ Shown(view.df_items) = (1..Len(uploaded.rows)) \ SummaryRows(uploaded)
        /\ Len(view.df_items) = Cardinality(Shown(view.df_items))
        /\ Shown(view.top20_rev) \subseteq Shown(view.df_items)
        /\ Shown(view.res) \subseteq Shown(view.df_items)

C2_Witness ==
    /\ pc = "done"
    /\ Len(uploaded.rows) = 3
    /\ SummaryRows(uploaded) = {1, 3}
    /\ view.total_rev = FromInt(1000)
    /\ to_number(uploaded.rows[3].TotalRevenue).v = FromInt(500)
    /\ Len(view.df_items) = 1
    /\ view.df_items[1].Item = T_A

\* C8: a row is taken for a Summary Row exactly when its Item, without its
\* leading blanks and in any letter case, begins with "total": such a row is
\* left out of the item rows, every other row is an item row, and the run
\* stops with the error exactly when the file has no such row.
\* "  TOTAL Revenue" is one; "Subtotal" is none and stays an item row.
C8_SummaryRowDetection ==
    pc = "done" =>
        /\ ("error" \in view.rendered) <=> (SummaryRows(uploaded) = {})
        /\ "success" \in view.rendered =>
              \A i \in 1..Len(uploaded.rows) :
                  IsSummaryItem(uploaded.rows[i].Item) <=> i \notin Shown(view.df_items)
        /\ uploaded.rows[1].Item \in {T_TOTAL_Revenue, T_total, T_Total} =>
              /\ "success" \in view.rendered
              /\ 1 \notin Shown(view.df_items)
        /\ (uploaded.rows[1].Item = T_Subtotal /\ Len(uploaded.rows) = 1) =>
              "error" \in view.rendered
        /\ (uploaded.rows[1].Item = T_Subtotal /\ Len(uploaded.rows) = 2) =>
              /\ Len(view.df_items) = 1
              /\ view.df_items[1].Item = T_Subtotal

C8_Witness ==
    /\ pc = "done"
    /\ uploaded.rows[1].Item = T_Subtotal
    /\ Len(view.df_items) = 1
    /\ view.df_items[1].Item = T_Subtotal
    /\ view.df_items[1].Category \in Bands

\* the sum of column col over the rows of a table
RECURSIVE Sum(_, _)
Sum(table, col) ==
    IF table = <<>> THEN Zero ELSE Add(Head(table)[col], Sum(Tail(table), col))

\* C9: when the Summary Row's TotalRevenue is a non-zero number, the
\* RevWeight values sum to (sum of the items' TotalRevenue) / total_rev; when
\* it also equals that sum, they sum to 1, the AnnualBudgetAlloc values sum
\* to total_budget and the MonthlyBudgetAlloc values to total_budget / 12.
C9_WeightsSum ==
    (pc = "done" /\ "success" \in view.rendered
        /\ view.total_rev.k = "fin" /\ ~IsZero(view.total_rev)) =>
        LET items == view.df_items
        IN  /\ (\A j \in 1..Len(items) : items[j].TotalRevenue.k = "fin") =>
                  Eq(Sum(items, "RevWeight"),
                     Div(Sum(items, "TotalRevenue"), view.total_rev))
            /\ Eq(Sum(items, "TotalRevenue"), view.total_rev) =>
                  /\ Eq(Sum(items, "RevWeight"), FromInt(1))
                  /\ Eq(Sum(items, "AnnualBudgetAlloc"), total_budget)
                  /\ Eq(Sum(items, "MonthlyBudgetAlloc"), Div(total_budget, FromInt(12)))

C9_Witness ==
    /\ pc = "done"
    /\ view.total_rev = FromInt(1000)
    /\ Len(view.df_items) = 2
    /\ Eq(Sum(view.df_items, "TotalRevenue"), view.total_rev)
    /\ total_budget = FromInt(120000)
    /\ view.df_items[1].RevWeight = Fin(1, 3, 5)
    /\ view.df_items[1].MonthlyBudgetAlloc = FromInt(6000)
    /\ view.df_items[2].MonthlyBudgetAlloc = FromInt(4000)

\* C10: a zero divisor is no error: every run on a file with a Summary Row,
\* also with total_rev = 0 or a MonthlyBudgetAlloc of 0, completes and gives
\* every item row one Category; CoverMonths of +infinity and of nan (0 / 0)
\* are Excess, CoverMonths of -infinity and negative CoverMonths are Danger.
C10_ZeroDivisor ==
    (pc = "done" /\ SummaryRows(uploaded) # {}) =>
        /\ "success" \in view.rendered
        /\ Len(view.df_items) = Len(uploaded.rows) - Cardinality(SummaryRows(uploaded))
        /\ \A j \in 1..Len(view.df_items) :
              LET r == view.df_items[j]
              IN  /\ r.Category \in Bands
                  /\ (r.CoverMonths = Inf(1) \/ IsNaN(r.CoverMonths)) => r.Category = Excess
                  /\ (r.CoverMonths = Inf(-1)
                        \/ (r.CoverMonths.k = "fin" /\ r.CoverMonths.s = -1)) =>
                        r.Category = Danger

C10_Witness ==
    /\ pc = "done"
    /\ "success" \in view.rendered
    /\ IsZero(view.total_rev)
    /\ IsZero(total_budget)
    /\ \E j \in 1..Len(view.df_items) :
          /\ IsNaN(view.df_items[j].RevWeight)
          /\ IsNaN(view.df_items[j].CoverMonths)
          /\ view.df_items[j].Category = Excess

===========================================================================
